---- MODULE Spec2Model ----
(***************************************************************************)
(* PoetryHub server (src/server/index.js): the users, poems and comments   *)
(* collections and the route handlers that change them.  A handler is a    *)
(* sequence of awaited database operations; each awaited operation is one  *)
(* atomic step, and the synchronous code that follows it belongs to the    *)
(* same step.  Requests are numbered in the order they arrive; reqs[i]     *)
(* holds request i's parameters, its position, its locals and, once it is  *)
(* "done", its response.  FollowSpec, LikeSpec and CommentSpec run the     *)
(* routes of one resource each, any number of requests overlapping; Spec   *)
(* runs them all.                                                          *)
(***************************************************************************)
EXTENDS Integers, Sequences, FiniteSets, TLC

\* ------------------------------------------------------------------ bounds
NumUsers == 2
MaxPoems == 2
MaxComments == 3
\* requests received in a run of the follow, like and comment routes
MaxFollowRequests == 2
MaxRegistrations == 1
MaxLikeRequests == 4
\* like requests on one poem, and follow requests among the first users
MaxToggleRequests == 5
MaxPairRequests == 3
MaxCommentRequests == 4
MaxEditRequests == 3
MaxAuthRequests == 3
MaxCardRequests == 4

\* ------------------------------------------------------------------ ids
\* parent: { ..., default: null }
Null == 0
\* the users registered at the start, and every id a user can have
Users == 1..NumUsers
UserIds == 1..(NumUsers + MaxRegistrations)
PoemIds == 1..MaxPoems
CommentIds == 1..MaxComments
\* well-formed ObjectIds that name no document
MissingUser == NumUsers + MaxRegistrations + 1
MissingPoem == MaxPoems + 1
MissingComment == MaxComments + 1
\* An id travels in a URL or a body as a 24-digit hex string.  ObjectId's
\* toHexString (the spelling inside a token, jwt.sign({ userId: user._id }))
\* is lower case; the cast of a string to an ObjectId accepts either case.
\* Only the follow route compares an id a client sent as a string (===,
\* includes); poem and comment ids are only ever cast: no spelling for them.
Forms == {"lower", "upper"}

VARIABLES
  users,      \* User documents: id -> [username, email, followers, following]
  poems,      \* Poem documents: id -> [author, likes, likes_count, comments_count,
              \*   title, content, category, tags, v (the version key __v)]
  comments,   \* Comment documents: id -> [poem, author, parent, replies, createdAt]
  nPoems,     \* poem ids handed out so far
  nComments,  \* comment ids handed out so far
  reqs,       \* the requests received so far, in arrival order; besides the
              \* handler's locals, "pre" keeps what the handler read and
              \* "during" the requests in progress at the arrival of a
              \* like or follow request
  overlap,    \* history: some request arrived while another was in progress
  card        \* one PoemCard in a browser: its React state and its requests

vars == <<users, poems, comments, nPoems, nComments, reqs, overlap, card>>

\* ------------------------------------------------------------------ helpers
Range(s) == {s[k] : k \in 1..Len(s)}

RECURSIVE Without(_, _)
Without(s, x) ==
  IF s = <<>> THEN <<>>
  ELSE IF Head(s) = x THEN Without(Tail(s), x)
       ELSE <<Head(s)>> \o Without(Tail(s), x)

RECURSIVE Count(_, _)
Count(s, x) ==
  IF s = <<>> THEN 0
  ELSE (IF Head(s) = x THEN 1 ELSE 0) + Count(Tail(s), x)

\* mutant: the element is compared as an object, which equals no string
Includes_Strict(arr, id, form) == FALSE

\* MongooseArray.includes(obj) with obj a string: indexOf compares
\* obj == element, which turns the ObjectId element into its lower-case hex
\* string; a string in another spelling equals no element.
Includes(arr, id, form) == form = "lower" /\ id \in Range(arr)

\* arr.push(v) saved as { $push: { path: { $each: [v] } } }: v is cast first.
AtomicPush(arr, id) == Append(arr, id)

\* arr.pull(v) saved as { $pullAll: { path: [v] } }: every occurrence goes.
AtomicPull(arr, id) == Without(arr, id)

\* ------------------------------------------------------------------ requests
\* jwt.sign({ userId: user._id }, JWT_SECRET): a token carries its
\* payload, the user id, and a signature, written as the secret that made it
Sign(u) == <<u, "JWT_SECRET">>

\* the Authorization header a logged-in client sends, as its words
BearerHeader(u) == <<"Bearer", Sign(u)>>

\* the { title, content, category, tags } of a request body that has none
NoBody == [title |-> "", content |-> "", category |-> "", tags |-> <<>>]

Req(kind, pc, user, target, form, parent) ==
  [kind |-> kind, pc |-> pc, user |-> user, target |-> target, form |-> form,
   parent |-> parent, flag |-> FALSE, old |-> 0, num |-> 0, cid |-> Null,
   status |-> 0, ans |-> FALSE, pre |-> <<>>,
   header |-> BearerHeader(user), body |-> NoBody, found |-> FALSE,
   during |-> {}]

InFlight == {i \in 1..Len(reqs) : reqs[i].pc # "done"}

At(i, kind, pc) == i \in 1..Len(reqs) /\ reqs[i].kind = kind /\ reqs[i].pc = pc

\* history: "during" keeps, for a like or a follow request, the requests
\* that were in progress when it arrived
Receive(r) ==
  /\ reqs' = Append(reqs, [r EXCEPT !.during = IF r.kind \in {"like", "follow"}
                                               THEN InFlight ELSE {}])
  /\ overlap' = (overlap \/ InFlight # {})

Respond(i, status, fields) ==
  reqs' = [reqs EXCEPT ![i] = [k \in DOMAIN @ |->
             IF k = "pc" THEN "done"
             ELSE IF k = "status" THEN status
             ELSE IF k \in DOMAIN fields THEN fields[k] ELSE @[k]]]

Goto(i, pc, fields) ==
  reqs' = [reqs EXCEPT ![i] = [k \in DOMAIN @ |->
             IF k = "pc" THEN pc
             ELSE IF k \in DOMAIN fields THEN fields[k] ELSE @[k]]]

NoFields == [x \in {} |-> 0]

\* ------------------------------------------------------------------ tokens
\* a token signed with another secret, and a word that is no token
Forged(u) == <<u, "another secret">>
Garbage == <<"garbage">>

\* Authorization headers, as the words of authHeader.split(' ') after the
\* first: <<>> is a request without the header, the empty word is <<>>,
\* "Bearer " has an empty second word, and a header with two spaces has the
\* token as its third word.  The tokens are those the server has signed for
\* its users and ones made without its secret.
Headers ==
  {<<>>, <<"Bearer">>, <<"Bearer", <<>>>>, <<"Bearer", Garbage>>}
    \cup {BearerHeader(u) : u \in Users}
    \cup {<<"Bearer", Forged(u)>> : u \in Users}
    \cup {<<"Bearer", <<>>, Sign(u)>> : u \in Users}

\* jwt.verify(token, JWT_SECRET, ...): err unless the token is well formed
\* and its signature was made with JWT_SECRET; the payload is not looked at
\* (tokens are signed without an expiry)
Verify(token) == Len(token) = 2 /\ token[2] = "JWT_SECRET"

\* the payload of a verified token: req.user.userId
Payload(token) == token[1]

\* authHeader && authHeader.split(' ')[1]: the second word, <<>> standing
\* for every falsy value (no header, no second word, an empty second word)
TokenOf(header) == IF Len(header) >= 2 THEN header[2] ELSE <<>>

\* mutant: the two refusals answer each other's status
AuthenticateToken_Swapped(header) ==
  IF TokenOf(header) = <<>> THEN 403
  ELSE IF ~Verify(TokenOf(header)) THEN 401
  ELSE 200

\* authenticateToken: 401 if (!token), 403 when jwt.verify fails,
\* otherwise next() (200 stands for "the handler runs with req.user = the
\* token's payload")
AuthenticateToken(header) ==
  IF TokenOf(header) = <<>> THEN 401
  ELSE IF ~Verify(TokenOf(header)) THEN 403
  ELSE 200

\* the routes behind authenticateToken that write documents
Routes == {"create", "edit", "delete", "like", "comment", "follow"}

\* a request the middleware answers itself: next() is not called
Refuse(kind, header, target) ==
  /\ AuthenticateToken(header) # 200
  /\ Receive([Req(kind, "done", Null, target, "lower", Null)
                EXCEPT !.status = AuthenticateToken(header),
                       !.header = header])
  /\ UNCHANGED <<users, poems, comments, nPoems, nComments, card>>

\* next(): the handler runs for the user of the token
Passes(header, c) ==
  AuthenticateToken(header) = 200 /\ Payload(TokenOf(header)) = c

\* ------------------------------------------------------------------ register
\* new User({ username, email, password }): followers and following take
\* their defaults (the fields no handler of the model reads are left out)
NewUser(username, email) ==
  [username |-> username, email |-> email,
   followers |-> <<>>, following |-> <<>>]

\* user names and addresses: the one of user 1 and a new one
Names == {1, NumUsers + 1}

\* a user document with this email or this username
Taken(username, email) ==
  \E u \in DOMAIN users :
    users[u].email = email \/ users[u].username = username

\* app.post('/api/auth/register'): User.findOne({ $or: [{ email },
\* { username }] }) returns; 400 when a user exists; otherwise
\* bcrypt.hash(password, 10) is issued
RegisterFind(username, email) ==
  /\ IF Taken(username, email)
     THEN Receive([Req("register", "done", Null, Null, "lower", Null)
                     EXCEPT !.status = 400,
                            !.body = [username |-> username, email |-> email]])
     ELSE Receive([Req("register", "hash", Null, Null, "lower", Null)
                     EXCEPT !.body = [username |-> username, email |-> email]])
  /\ UNCHANGED <<users, poems, comments, nPoems, nComments, card>>

\* await bcrypt.hash(password, 10) returns; user.save() is issued
RegisterHash(i) ==
  /\ At(i, "register", "hash")
  /\ Goto(i, "save", NoFields)
  /\ UNCHANGED <<users, poems, comments, nPoems, nComments, overlap, card>>

\* await user.save(): the unique indexes of username and email refuse a
\* second document with either (the catch answers 500); otherwise the user
\* is stored under a new id and the answer is 201 with a token for it
RegisterSave(i) ==
  /\ At(i, "register", "save")
  /\ LET id == Cardinality(DOMAIN users) + 1
     IN IF Taken(reqs[i].body.username, reqs[i].body.email)
        THEN /\ Respond(i, 500, NoFields)
             /\ UNCHANGED users
        ELSE /\ users' = (id :> NewUser(reqs[i].body.username,
                                        reqs[i].body.email)) @@ users
             /\ Respond(i, 201, [target |-> id])
  /\ UNCHANGED <<poems, comments, nPoems, nComments, overlap, card>>

\* ------------------------------------------------------------------ Init
\* no PoemCard is rendered
NoCard ==
  [user |-> Null, poem |-> Null, isLiked |-> FALSE, likesCount |-> 0,
   isLiking |-> FALSE, since |-> 0, statusSent |-> 0, likesSent |-> 0,
   delivered |-> {}]

Init ==
  /\ users = [u \in Users |-> NewUser(u, u)]
  /\ poems = [p \in {} |-> 0]
  /\ comments = [c \in {} |-> 0]
  /\ nPoems = 0
  /\ nComments = 0
  /\ reqs = <<>>
  /\ overlap = FALSE
  /\ card = NoCard

\* ------------------------------------------------------------------ follow
\* app.post('/api/users/:id/follow'): the request arrives with the token of
\* user c and the target id spelled (t, f); targetUserId === currentUserId
\* compares the two strings; User.findById(targetUserId) is then issued.
FollowBegin(c, t, f) ==
  /\ IF t = c /\ f = "lower"
     THEN Receive([Req("follow", "done", c, t, f, Null) EXCEPT !.status = 400])
     ELSE Receive(Req("follow", "findTarget", c, t, f, Null))
  /\ UNCHANGED <<users, poems, comments, nPoems, nComments, card>>

\* User.findById(targetUserId) returns targetUser (found, and in pre its
\* followers as read) or null; User.findById(currentUserId) is issued.
FollowFindTarget(i) ==
  /\ At(i, "follow", "findTarget")
  /\ IF reqs[i].target \in DOMAIN users
     THEN Goto(i, "findCurrent",
               [found |-> TRUE, pre |-> <<users[reqs[i].target].followers>>])
     ELSE Goto(i, "findCurrent", [found |-> FALSE])
  /\ UNCHANGED <<users, poems, comments, nPoems, nComments, overlap, card>>

\* User.findById(currentUserId) returns; !targetUser answers 404; otherwise
\* isFollowing is read from currentUser.following and both documents are
\* changed in memory (pre: following and followers as they were read).
FollowFindCurrent(i) ==
  /\ At(i, "follow", "findCurrent")
  /\ IF ~reqs[i].found
     THEN Respond(i, 404, NoFields)
     ELSE Goto(i, "saveCurrent",
               [flag |-> Includes(users[reqs[i].user].following,
                                  reqs[i].target, reqs[i].form),
                pre |-> <<users[reqs[i].user].following, reqs[i].pre[1]>>])
  /\ UNCHANGED <<users, poems, comments, nPoems, nComments, overlap, card>>

\* mutant: the first save writes both documents
FollowSaveCurrent_Both(i) ==
  /\ At(i, "follow", "saveCurrent")
  /\ LET c == reqs[i].user
         t == reqs[i].target
     IN users' = [users EXCEPT
                    ![c].following =
                      IF reqs[i].flag THEN AtomicPull(@, t) ELSE AtomicPush(@, t),
                    ![t].followers =
                      IF reqs[i].flag THEN AtomicPull(@, c) ELSE AtomicPush(@, c)]
  /\ Goto(i, "saveTarget", NoFields)
  /\ UNCHANGED <<poems, comments, nPoems, nComments, overlap, card>>

\* await currentUser.save()
FollowSaveCurrent(i) ==
  /\ At(i, "follow", "saveCurrent")
  /\ LET c == reqs[i].user
         t == reqs[i].target
     IN users' = [users EXCEPT ![c].following =
                    IF reqs[i].flag THEN AtomicPull(@, t) ELSE AtomicPush(@, t)]
  /\ Goto(i, "saveTarget", NoFields)
  /\ UNCHANGED <<poems, comments, nPoems, nComments, overlap, card>>

\* mutant: the second save writes the target's following
FollowSaveTarget_Following(i) ==
  /\ At(i, "follow", "saveTarget")
  /\ LET c == reqs[i].user
         t == reqs[i].target
     IN users' = [users EXCEPT ![t].following =
                    IF reqs[i].flag THEN AtomicPull(@, c) ELSE AtomicPush(@, c)]
  /\ Respond(i, 200, [ans |-> ~reqs[i].flag])
  /\ UNCHANGED <<poems, comments, nPoems, nComments, overlap, card>>

\* await targetUser.save(); res.json({ following: !isFollowing })
FollowSaveTarget(i) ==
  /\ At(i, "follow", "saveTarget")
  /\ LET c == reqs[i].user
         t == reqs[i].target
     IN users' = [users EXCEPT ![t].followers =
                    IF reqs[i].flag THEN AtomicPull(@, c) ELSE AtomicPush(@, c)]
  /\ Respond(i, 200, [ans |-> ~reqs[i].flag])
  /\ UNCHANGED <<poems, comments, nPoems, nComments, overlap, card>>

\* await targetUser.save() rejects (the database is unreachable, the write
\* is refused): the catch block answers 500 and currentUser stays saved.
FollowSaveTargetFails(i) ==
  /\ At(i, "follow", "saveTarget")
  /\ Respond(i, 500, NoFields)
  /\ UNCHANGED <<users, poems, comments, nPoems, nComments, overlap, card>>

\* ------------------------------------------------------------------ poems
\* ids of poems and comments a client can name: every id of a document
\* stored so far (the document may be gone by now) and one that names
\* nothing.  The id of a comment whose insert is still on its way has been
\* shown to nobody.
KnownPoems == (1..nPoems) \cup {MissingPoem}
KnownComments ==
  {reqs[i].cid : i \in {j \in 1..Len(reqs) :
                          reqs[j].kind = "comment" /\ reqs[j].pc # "save"}}
  \cup {MissingComment}

\* new Poem({ title, content, author: req.user.userId, category, tags,
\* image_url }): likes, likes_count and comments_count take their defaults
NewPoem(c) ==
  [author |-> c, likes |-> <<>>, likes_count |-> 0, comments_count |-> 0,
   title |-> "Title", content |-> "Content", category |-> "Category",
   tags |-> <<>>, v |-> 0]

\* app.post('/api/poems'): await poem.save() stores the poem;
\* poem.populate('author', 'username') is issued.
PoemCreate(c) ==
  /\ nPoems < MaxPoems
  /\ Receive(Req("create", "populate", c, nPoems + 1, "lower", Null))
  /\ nPoems' = nPoems + 1
  /\ poems' = (nPoems + 1 :> NewPoem(c)) @@ poems
  /\ UNCHANGED <<users, comments, nComments, card>>

\* await poem.populate('author', 'username') returns (it only reads);
\* res.status(201).json(poem)
PoemCreatePopulate(i) ==
  /\ At(i, "create", "populate")
  /\ Respond(i, 201, NoFields)
  /\ UNCHANGED <<users, poems, comments, nPoems, nComments, overlap, card>>

\* await poem.populate(...) rejects (the database is unreachable) in POST
\* or PUT: the catch answers 500 and what save() wrote stays stored
PoemPopulateFails(i) ==
  /\ At(i, "create", "populate") \/ At(i, "edit", "populate")
  /\ Respond(i, 500, NoFields)
  /\ UNCHANGED <<users, poems, comments, nPoems, nComments, overlap, card>>

\* app.delete('/api/poems/:id'): Poem.findById returns; 404 without a poem,
\* 403 when poem.author.toString() !== req.user.userId
PoemDeleteFind(c, p) ==
  /\ IF p \notin DOMAIN poems
     THEN Receive([Req("delete", "done", c, p, "lower", Null)
                     EXCEPT !.status = 404])
     ELSE IF poems[p].author # c
     THEN Receive([Req("delete", "done", c, p, "lower", Null)
                     EXCEPT !.status = 403])
     ELSE Receive(Req("delete", "deletePoem", c, p, "lower", Null))
  /\ UNCHANGED <<users, poems, comments, nPoems, nComments, card>>

RemoveKey(f, k) == [x \in DOMAIN f \ {k} |-> f[x]]

\* await Poem.findByIdAndDelete(req.params.id)
PoemDeletePoem(i) ==
  /\ At(i, "delete", "deletePoem")
  /\ poems' = RemoveKey(poems, reqs[i].target)
  /\ Goto(i, "deleteComments", NoFields)
  /\ UNCHANGED <<users, comments, nPoems, nComments, overlap, card>>

\* mutant: only the top-level comments of the poem are deleted
DeleteMany_TopLevel(cs, p) ==
  [c \in {x \in DOMAIN cs : ~(cs[x].poem = p /\ cs[x].parent = Null)} |-> cs[c]]

\* Comment.deleteMany({ poem: id }) keeps the comments of other poems
DeleteMany(cs, p) == [c \in {x \in DOMAIN cs : cs[x].poem # p} |-> cs[c]]

\* await Comment.deleteMany({ poem: req.params.id }); res.json(...)
PoemDeleteComments(i) ==
  /\ At(i, "delete", "deleteComments")
  /\ comments' = DeleteMany(comments, reqs[i].target)
  /\ Respond(i, 200, NoFields)
  /\ UNCHANGED <<users, poems, nPoems, nComments, overlap, card>>

\* ------------------------------------------------------------------ edit
\* a string is the sequence of its characters; a character that cannot be
\* written between quotes is written as its code point
\* the characters String.prototype.trim removes: white space (TAB, VT, FF,
\* SP, NBSP, ZWNBSP, the space separators) and line terminators (LF, CR,
\* LS, PS)
WhiteSpace ==
  {" ", "\t", "\n", "\r", "\f", "U+000B", "U+00A0", "U+FEFF", "U+1680",
   "U+2000", "U+2001", "U+2002", "U+2003", "U+2004", "U+2005", "U+2006",
   "U+2007", "U+2008", "U+2009", "U+200A", "U+2028", "U+2029", "U+202F",
   "U+205F", "U+3000"}

RECURSIVE TrimStart(_)
TrimStart(s) ==
  IF s # <<>> /\ Head(s) \in WhiteSpace THEN TrimStart(Tail(s)) ELSE s

RECURSIVE TrimEnd(_)
TrimEnd(s) ==
  IF s # <<>> /\ s[Len(s)] \in WhiteSpace
  THEN TrimEnd(SubSeq(s, 1, Len(s) - 1)) ELSE s

\* tag.trim()
Trim(s) == TrimEnd(TrimStart(s))

\* tags.split(','): the pieces between the commas, empty pieces included
RECURSIVE Split(_)
Split(s) ==
  IF \A k \in 1..Len(s) : s[k] # ","
  THEN <<s>>
  ELSE LET k == CHOOSE n \in 1..Len(s) :
                  s[n] = "," /\ \A m \in 1..(n - 1) : s[m] # ","
       IN <<SubSeq(s, 1, k - 1)>> \o Split(SubSeq(s, k + 1, Len(s)))

\* tags.split(',').map(tag => tag.trim())
SplitTags(s) == [k \in 1..Len(Split(s)) |-> Trim(Split(s)[k])]

\* value || old: a missing or empty string keeps the old value
OrElse(value, old) == IF value = "" THEN old ELSE value

\* the { title, content, category, tags } a client sends with PUT
Bodies ==
  {NoBody,
   [NoBody EXCEPT !.title = "New title"],
   [NoBody EXCEPT !.content = "New content", !.category = "New category"],
   [NoBody EXCEPT !.tags = <<"a", ",", " ", "b">>],
   [NoBody EXCEPT !.title = "Newer title", !.tags = <<"\t", "a", "\n", ",">>]}

\* mutant: the author is not compared with the token's user
PoemEditFind_AnyUser(c, p, body) ==
  /\ IF p \notin DOMAIN poems
     THEN Receive([Req("edit", "done", c, p, "lower", Null)
                     EXCEPT !.status = 404, !.body = body])
     ELSE Receive([Req("edit", "editSave", c, p, "lower", Null)
                     EXCEPT !.body = body, !.pre = poems[p]])
  /\ UNCHANGED <<users, poems, comments, nPoems, nComments, card>>

\* app.put('/api/poems/:id'): Poem.findById returns; 404 without a poem,
\* 403 when poem.author.toString() !== req.user.userId; otherwise the
\* document that was read (pre) is changed in memory from the body
PoemEditFind(c, p, body) ==
  /\ IF p \notin DOMAIN poems
     THEN Receive([Req("edit", "done", c, p, "lower", Null)
                     EXCEPT !.status = 404, !.body = body])
     ELSE IF poems[p].author # c
     THEN Receive([Req("edit", "done", c, p, "lower", Null)
                     EXCEPT !.status = 403, !.body = body])
     ELSE Receive([Req("edit", "editSave", c, p, "lower", Null)
                     EXCEPT !.body = body, !.pre = poems[p]])
  /\ UNCHANGED <<users, poems, comments, nPoems, nComments, card>>

\* the document in memory after the four assignments
Edited(doc, body) ==
  [doc EXCEPT !.title = OrElse(body.title, @),
              !.content = OrElse(body.content, @),
              !.category = OrElse(body.category, @),
              !.tags = IF body.tags # <<>> THEN SplitTags(body.tags) ELSE @]

\* await poem.save() returns and poem.populate('author', 'username') is
\* issued.  save() sends { $set } of the paths whose value changed.  A changed tags array is sent whole, so the update
\* asks for the version that was read and increments it: a poem saved with
\* another version since, or a poem that is gone, makes save() throw and
\* the catch answers 500.
PoemEditSave(i) ==
  /\ At(i, "edit", "editSave")
  /\ LET p == reqs[i].target
         read == reqs[i].pre
         doc == Edited(read, reqs[i].body)
     IN IF \/ p \notin DOMAIN poems
           \/ (doc.tags # read.tags /\ poems[p].v # read.v)
        THEN /\ Respond(i, 500, NoFields)
             /\ UNCHANGED poems
        ELSE /\ poems' = [poems EXCEPT
                  ![p].title = IF doc.title # read.title THEN doc.title ELSE @,
                  ![p].content =
                     IF doc.content # read.content THEN doc.content ELSE @,
                  ![p].category =
                     IF doc.category # read.category THEN doc.category ELSE @,
                  ![p].tags = IF doc.tags # read.tags THEN doc.tags ELSE @,
                  ![p].v = IF doc.tags # read.tags THEN @ + 1 ELSE @]
             /\ Goto(i, "populate", NoFields)
  /\ UNCHANGED <<users, comments, nPoems, nComments, overlap, card>>

\* await poem.populate('author', 'username') returns; res.json(poem)
PoemEditPopulate(i) ==
  /\ At(i, "edit", "populate")
  /\ Respond(i, 200, NoFields)
  /\ UNCHANGED <<users, poems, comments, nPoems, nComments, overlap, card>>

\* ------------------------------------------------------------------ likes
Max(a, b) == IF a >= b THEN a ELSE b

\* mutant: the unlike branch leaves the counter alone
NewLikesCount_NoDecrement(isLiked, n) == IF isLiked THEN n ELSE n + 1

\* poem.likes_count = Math.max(0, poem.likes_count - 1), or += 1
NewLikesCount(isLiked, n) == IF isLiked THEN Max(0, n - 1) ELSE n + 1

\* app.post('/api/poems/:id/like'): Poem.findById returns; 404 without a
\* poem; isLiked = poem.likes.includes(userId); the document is changed in
\* memory (num is its likes_count, old the value that was read)
LikeFind(c, p) ==
  /\ IF p \notin DOMAIN poems
     THEN Receive([Req("like", "done", c, p, "lower", Null)
                     EXCEPT !.status = 404])
     ELSE LET isLiked == Includes(poems[p].likes, c, "lower")
          IN Receive([Req("like", "save", c, p, "lower", Null) EXCEPT
                        !.flag = isLiked,
                        !.old = poems[p].likes_count,
                        !.num = NewLikesCount(isLiked, poems[p].likes_count),
                        !.pre = <<poems[p].likes, poems[p].likes_count>>])
  /\ UNCHANGED <<users, poems, comments, nPoems, nComments, card>>

\* mutant: the counter is written as the size of the stored likes
LikeSave_Recount(i) ==
  /\ At(i, "like", "save")
  /\ LET p == reqs[i].target
         c == reqs[i].user
     IN IF p \notin DOMAIN poems
        THEN /\ Respond(i, 500, NoFields)
             /\ UNCHANGED poems
        ELSE LET likes == IF reqs[i].flag THEN AtomicPull(poems[p].likes, c)
                                          ELSE AtomicPush(poems[p].likes, c)
             IN /\ poems' = [poems EXCEPT ![p].likes = likes,
                                          ![p].likes_count = Len(likes),
                                          ![p].v = @ + 1]
                /\ Respond(i, 200, [ans |-> ~reqs[i].flag])
  /\ UNCHANGED <<users, comments, nPoems, nComments, overlap, card>>

\* await poem.save(): { $push | $pullAll: likes } and, when the number
\* changed, { $set: likes_count }; a changed array also increments the
\* document's version __v (without asking for the version read); a
\* document that is gone makes save() throw (DocumentNotFoundError) and the catch answers 500.
\* res.json({ liked: !isLiked, likes_count: poem.likes_count })
LikeSave(i) ==
  /\ At(i, "like", "save")
  /\ LET p == reqs[i].target
         c == reqs[i].user
     IN IF p \notin DOMAIN poems
        THEN /\ Respond(i, 500, NoFields)
             /\ UNCHANGED poems
        ELSE /\ poems' = [poems EXCEPT
                  ![p].likes = IF reqs[i].flag THEN AtomicPull(@, c)
                                               ELSE AtomicPush(@, c),
                  ![p].likes_count = IF reqs[i].num # reqs[i].old
                                     THEN reqs[i].num ELSE @,
                  ![p].v = @ + 1]
             /\ Respond(i, 200, [ans |-> ~reqs[i].flag])
  /\ UNCHANGED <<users, comments, nPoems, nComments, overlap, card>>

\* ------------------------------------------------------------------ PoemCard
\* app.get('/api/poems/:id/like-status'): Poem.findById returns; 404 without
\* a poem; res.json({ liked: poem.likes.includes(req.user.userId) })
LikeStatus(c, p) ==
  /\ IF p \notin DOMAIN poems
     THEN Receive([Req("status", "done", c, p, "lower", Null)
                     EXCEPT !.status = 404])
     ELSE Receive([Req("status", "done", c, p, "lower", Null)
                     EXCEPT !.status = 200,
                            !.ans = Includes(poems[p].likes, c, "lower")])
  /\ UNCHANGED <<users, poems, comments, nPoems, nComments, card>>

\* the requests of the card that have reached the server
CardRequests(kind) ==
  {i \in (card.since + 1)..Len(reqs) :
     reqs[i].kind = kind /\ reqs[i].user = card.user
       /\ reqs[i].target = card.poem}

\* the card is rendered for the logged-in user u with a poem of a list:
\* useState(false), useState(poem.likes_count), useState(false); the effect
\* runs checkLikeStatus, which sends getLikeStatus(poem._id)
CardMount(u, p) ==
  /\ card.poem = Null
  /\ p \in DOMAIN poems
  /\ card' = [user |-> u, poem |-> p, isLiked |-> FALSE,
              likesCount |-> poems[p].likes_count, isLiking |-> FALSE,
              since |-> Len(reqs), statusSent |-> 1, likesSent |-> 0,
              delivered |-> {}]
  /\ UNCHANGED <<users, poems, comments, nPoems, nComments, reqs, overlap>>

\* a click on the like button (disabled while isLiking): handleLike sets
\* isLiking and sends toggleLike(poem._id)
CardHandleLike ==
  /\ card.poem # Null
  /\ ~card.isLiking
  /\ card' = [card EXCEPT !.isLiking = TRUE, !.likesSent = @ + 1]
  /\ UNCHANGED <<users, poems, comments, nPoems, nComments, reqs, overlap>>

\* the answer to getLikeStatus arrives: setIsLiked(response.liked); an
\* error answer is swallowed by the catch
CardStatusResponse(i) ==
  /\ card.poem # Null
  /\ i \in CardRequests("status") \ card.delivered
  /\ reqs[i].pc = "done"
  /\ card' = [card EXCEPT
       !.isLiked = IF reqs[i].status = 200 THEN reqs[i].ans ELSE @,
       !.delivered = @ \cup {i}]
  /\ UNCHANGED <<users, poems, comments, nPoems, nComments, reqs, overlap>>

\* the answer to toggleLike arrives: setIsLiked(response.liked),
\* setLikesCount(response.likes_count), or the error toast; then
\* setIsLiking(false)
CardLikeResponse(i) ==
  /\ card.poem # Null
  /\ i \in CardRequests("like") \ card.delivered
  /\ reqs[i].pc = "done"
  /\ card' = [card EXCEPT
       !.isLiked = IF reqs[i].status = 200 THEN reqs[i].ans ELSE @,
       !.likesCount = IF reqs[i].status = 200 THEN reqs[i].num ELSE @,
       !.isLiking = FALSE,
       !.delivered = @ \cup {i}]
  /\ UNCHANGED <<users, poems, comments, nPoems, nComments, reqs, overlap>>

\* ------------------------------------------------------------------ comments
\* new Comment({ poem: req.params.id, author, content, parent: parentId ||
\* null }): replies takes its default; createdAt is the stamp taken when
\* save() was called
NewComment(c, p, parentId, now) ==
  [poem |-> p, author |-> c, parent |-> parentId, replies |-> <<>>,
   createdAt |-> now]

\* app.post('/api/poems/:id/comments'): the handler builds the comment (its
\* _id, cid) and calls comment.save(), which stamps createdAt before the
\* insert is sent: ids and stamps follow the order of arrival.  Neither the
\* poem nor the parent is looked up.
CommentBegin(c, p, parentId) ==
  /\ nComments < MaxComments
  /\ Receive([Req("comment", "save", c, p, "lower", parentId)
                EXCEPT !.cid = nComments + 1])
  /\ nComments' = nComments + 1
  /\ UNCHANGED <<users, poems, comments, nPoems, card>>

\* await comment.save() returns: the comment is stored;
\* comment.populate('author', 'username avatar_url') is issued
CommentSave(i) ==
  /\ At(i, "comment", "save")
  /\ comments' = (reqs[i].cid :> NewComment(reqs[i].user, reqs[i].target,
                                            reqs[i].parent, reqs[i].cid))
                   @@ comments
  /\ Goto(i, "populate", NoFields)
  /\ UNCHANGED <<users, poems, nPoems, nComments, overlap, card>>

\* await comment.populate(...) returns (it only reads); if (parentId) the
\* update of the parent is issued, otherwise the update of the poem
CommentPopulate(i) ==
  /\ At(i, "comment", "populate")
  /\ Goto(i, IF reqs[i].parent # Null THEN "pushParent" ELSE "incCount",
          NoFields)
  /\ UNCHANGED <<users, poems, comments, nPoems, nComments, overlap, card>>

\* await comment.populate(...) rejects (the database is unreachable): the
\* catch answers 500; the comment stays stored, its parent's replies and
\* the poem's comments_count are not updated
CommentPopulateFails(i) ==
  /\ At(i, "comment", "populate")
  /\ Respond(i, 500, NoFields)
  /\ UNCHANGED <<users, poems, comments, nPoems, nComments, overlap, card>>

\* Comment.findByIdAndUpdate(parentId, { $push: { replies: comment._id } }):
\* nothing happens when no comment has that id
PushReply(cs, parentId, cid) ==
  IF parentId \in DOMAIN cs
  THEN [cs EXCEPT ![parentId].replies = AtomicPush(@, cid)]
  ELSE cs

CommentPushParent(i) ==
  /\ At(i, "comment", "pushParent")
  /\ comments' = PushReply(comments, reqs[i].parent, reqs[i].cid)
  /\ Goto(i, "incCount", NoFields)
  /\ UNCHANGED <<users, poems, nPoems, nComments, overlap, card>>

\* Poem.findByIdAndUpdate(id, { $inc: { comments_count: 1 } });
\* res.status(201).json(comment)
CommentIncCount(i) ==
  /\ At(i, "comment", "incCount")
  /\ poems' = IF reqs[i].target \in DOMAIN poems
              THEN [poems EXCEPT ![reqs[i].target].comments_count = @ + 1]
              ELSE poems
  /\ Respond(i, 201, NoFields)
  /\ UNCHANGED <<users, comments, nPoems, nComments, overlap, card>>

\* ------------------------------------------------------------------ listing
\* sort({ createdAt: 1 }): the ids of S by ascending createdAt (ties by id)
RECURSIVE SortByCreatedAt(_, _)
SortByCreatedAt(cs, S) ==
  IF S = {} THEN <<>>
  ELSE LET m == CHOOSE x \in S : \A y \in S :
                  \/ cs[x].createdAt < cs[y].createdAt
                  \/ (cs[x].createdAt = cs[y].createdAt /\ x <= y)
       IN <<m>> \o SortByCreatedAt(cs, S \ {m})

RECURSIVE Populate(_, _)
\* populate('replies'): the documents of the ids, in the array's order; an
\* id without a document is dropped
Populate(cs, ids) ==
  IF ids = <<>> THEN <<>>
  ELSE (IF Head(ids) \in DOMAIN cs
        THEN <<[id |-> Head(ids), parent |-> cs[Head(ids)].parent,
                createdAt |-> cs[Head(ids)].createdAt,
                replies |-> cs[Head(ids)].replies]>>
        ELSE <<>>) \o Populate(cs, Tail(ids))

\* app.get('/api/poems/:id/comments'):
\* Comment.find({ poem, parent: null }).populate(replies).sort({ createdAt: 1 })
GetComments(p) ==
  LET top == {c \in DOMAIN comments :
                comments[c].poem = p /\ comments[c].parent = Null}
      order == SortByCreatedAt(comments, top)
  IN [k \in 1..Len(order) |->
        [id |-> order[k], createdAt |-> comments[order[k]].createdAt,
         replies |-> Populate(comments, comments[order[k]].replies)]]

\* ------------------------------------------------------------------ next
\* the requests of one kind received so far
Received(kind) == Cardinality({i \in 1..Len(reqs) : reqs[i].kind = kind})

FollowNext ==
  \/ \E username \in Names, email \in Names :
       /\ Received("register") < MaxRegistrations
       /\ RegisterFind(username, email)
  \/ \E i \in 1..Len(reqs) : RegisterHash(i)
  \/ \E i \in 1..Len(reqs) : RegisterSave(i)
  \/ \E c \in DOMAIN users, t \in UserIds \cup {MissingUser}, f \in Forms :
       /\ Received("follow") < MaxFollowRequests
       /\ t \notin Users => f = "lower"
       /\ FollowBegin(c, t, f)
  \/ \E i \in 1..Len(reqs) : FollowFindTarget(i)
  \/ \E i \in 1..Len(reqs) : FollowFindCurrent(i)
  \/ \E i \in 1..Len(reqs) : FollowSaveCurrent(i)
  \/ \E i \in 1..Len(reqs) : FollowSaveTarget(i)

FollowSpec == Init /\ [][FollowNext]_vars

\* the follow handler with a second save that can fail
FollowFaultNext ==
  \/ FollowNext
  \/ \E i \in 1..Len(reqs) : FollowSaveTargetFails(i)

FollowFaultSpec == Init /\ [][FollowFaultNext]_vars

\* follow requests among the users present at the start, in either
\* spelling, with a second save that can fail
FollowPairNext ==
  \/ \E c \in Users, t \in Users, f \in Forms :
       Received("follow") < MaxPairRequests /\ FollowBegin(c, t, f)
  \/ \E i \in 1..Len(reqs) : FollowFindTarget(i)
  \/ \E i \in 1..Len(reqs) : FollowFindCurrent(i)
  \/ \E i \in 1..Len(reqs) : FollowSaveCurrent(i)
  \/ \E i \in 1..Len(reqs) : FollowSaveTarget(i)
  \/ \E i \in 1..Len(reqs) : FollowSaveTargetFails(i)

FollowPairSpec == Init /\ [][FollowPairNext]_vars

LikeNext ==
  \/ \E c \in DOMAIN users : Len(reqs) < MaxLikeRequests /\ PoemCreate(c)
  \/ \E i \in 1..Len(reqs) : PoemCreatePopulate(i)
  \/ \E c \in DOMAIN users, p \in KnownPoems :
       Len(reqs) < MaxLikeRequests /\ LikeFind(c, p)
  \/ \E i \in 1..Len(reqs) : LikeSave(i)
  \/ \E c \in DOMAIN users, p \in KnownPoems :
       Len(reqs) < MaxLikeRequests /\ PoemDeleteFind(c, p)
  \/ \E i \in 1..Len(reqs) : PoemDeletePoem(i)
  \/ \E i \in 1..Len(reqs) : PoemDeleteComments(i)

LikeSpec == Init /\ [][LikeNext]_vars

\* one poem is created and liked and unliked, by any users in any
\* interleaving
ToggleNext ==
  \/ \E c \in DOMAIN users : nPoems = 0 /\ PoemCreate(c)
  \/ \E i \in 1..Len(reqs) : PoemCreatePopulate(i)
  \/ \E c \in DOMAIN users, p \in DOMAIN poems :
       Received("like") < MaxToggleRequests /\ LikeFind(c, p)
  \/ \E i \in 1..Len(reqs) : LikeSave(i)

ToggleSpec == Init /\ [][ToggleNext]_vars

CommentNext ==
  \/ \E c \in DOMAIN users : Len(reqs) < MaxCommentRequests /\ PoemCreate(c)
  \/ \E i \in 1..Len(reqs) : PoemCreatePopulate(i)
  \/ \E c \in DOMAIN users, p \in KnownPoems, parentId \in {Null} \cup KnownComments :
       Len(reqs) < MaxCommentRequests /\ CommentBegin(c, p, parentId)
  \/ \E i \in 1..Len(reqs) : CommentSave(i)
  \/ \E i \in 1..Len(reqs) : CommentPopulate(i)
  \/ \E i \in 1..Len(reqs) : CommentPushParent(i)
  \/ \E i \in 1..Len(reqs) : CommentIncCount(i)
  \/ \E c \in DOMAIN users, p \in KnownPoems :
       Len(reqs) < MaxCommentRequests /\ PoemDeleteFind(c, p)
  \/ \E i \in 1..Len(reqs) : PoemDeletePoem(i)
  \/ \E i \in 1..Len(reqs) : PoemDeleteComments(i)

CommentSpec == Init /\ [][CommentNext]_vars

\* the poem routes with the like and comment routes
EditNext ==
  \/ \E c \in DOMAIN users : Len(reqs) < MaxEditRequests /\ PoemCreate(c)
  \/ \E i \in 1..Len(reqs) : PoemCreatePopulate(i)
  \/ \E c \in DOMAIN users, p \in KnownPoems, body \in Bodies :
       Len(reqs) < MaxEditRequests /\ PoemEditFind(c, p, body)
  \/ \E i \in 1..Len(reqs) : PoemEditSave(i)
  \/ \E i \in 1..Len(reqs) : PoemEditPopulate(i)
  \/ \E i \in 1..Len(reqs) : PoemPopulateFails(i)
  \/ \E c \in DOMAIN users, p \in KnownPoems :
       Len(reqs) < MaxEditRequests /\ PoemDeleteFind(c, p)
  \/ \E i \in 1..Len(reqs) : PoemDeletePoem(i)
  \/ \E i \in 1..Len(reqs) : PoemDeleteComments(i)
  \/ \E c \in DOMAIN users, p \in KnownPoems, parentId \in {Null} \cup KnownComments :
       Len(reqs) < MaxEditRequests /\ CommentBegin(c, p, parentId)
  \/ \E i \in 1..Len(reqs) : CommentSave(i)
  \/ \E i \in 1..Len(reqs) : CommentPopulate(i)
  \/ \E i \in 1..Len(reqs) : CommentPushParent(i)
  \/ \E i \in 1..Len(reqs) : CommentPopulateFails(i)
  \/ \E i \in 1..Len(reqs) : CommentIncCount(i)
  \/ \E c \in DOMAIN users, p \in KnownPoems :
       Len(reqs) < MaxEditRequests /\ LikeFind(c, p)
  \/ \E i \in 1..Len(reqs) : LikeSave(i)

EditSpec == Init /\ [][EditNext]_vars

\* every writing route behind its middleware
AuthNext ==
  \/ \E h \in Headers, kind \in Routes, t \in KnownPoems :
       Len(reqs) < MaxAuthRequests /\ Refuse(kind, h, t)
  \/ \E h \in Headers, c \in DOMAIN users :
       Len(reqs) < MaxAuthRequests /\ Passes(h, c) /\ PoemCreate(c)
  \/ \E i \in 1..Len(reqs) : PoemCreatePopulate(i)
  \/ \E h \in Headers, c \in DOMAIN users, p \in KnownPoems :
       /\ Len(reqs) < MaxAuthRequests /\ Passes(h, c)
       /\ PoemEditFind(c, p, [NoBody EXCEPT !.title = "New title"])
  \/ \E i \in 1..Len(reqs) : PoemEditSave(i)
  \/ \E i \in 1..Len(reqs) : PoemEditPopulate(i)
  \/ \E h \in Headers, c \in DOMAIN users, p \in KnownPoems :
       Len(reqs) < MaxAuthRequests /\ Passes(h, c) /\ PoemDeleteFind(c, p)
  \/ \E i \in 1..Len(reqs) : PoemDeletePoem(i)
  \/ \E i \in 1..Len(reqs) : PoemDeleteComments(i)
  \/ \E h \in Headers, c \in DOMAIN users, p \in KnownPoems :
       Len(reqs) < MaxAuthRequests /\ Passes(h, c) /\ LikeFind(c, p)
  \/ \E i \in 1..Len(reqs) : LikeSave(i)
  \/ \E h \in Headers, c \in DOMAIN users, p \in KnownPoems :
       Len(reqs) < MaxAuthRequests /\ Passes(h, c) /\ CommentBegin(c, p, Null)
  \/ \E i \in 1..Len(reqs) : CommentSave(i)
  \/ \E i \in 1..Len(reqs) : CommentPopulate(i)
  \/ \E i \in 1..Len(reqs) : CommentIncCount(i)
  \/ \E h \in Headers, c \in DOMAIN users, t \in DOMAIN users :
       Len(reqs) < MaxAuthRequests /\ Passes(h, c) /\ FollowBegin(c, t, "lower")
  \/ \E i \in 1..Len(reqs) : FollowFindTarget(i)
  \/ \E i \in 1..Len(reqs) : FollowFindCurrent(i)
  \/ \E i \in 1..Len(reqs) : FollowSaveCurrent(i)
  \/ \E i \in 1..Len(reqs) : FollowSaveTarget(i)

AuthSpec == Init /\ [][AuthNext]_vars

\* one card in a browser and the like routes it talks to; a request the
\* card has sent reaches the server at any later moment, and a finished
\* request's answer reaches the card at any later moment.  Likes made
\* elsewhere are finished before the card is rendered: from then on the
\* card's requests are the only ones.
CardNext ==
  \/ \E c \in DOMAIN users : Len(reqs) < MaxCardRequests /\ PoemCreate(c)
  \/ \E i \in 1..Len(reqs) : PoemCreatePopulate(i)
  \/ \E c \in DOMAIN users, p \in KnownPoems :
       /\ Len(reqs) < MaxCardRequests
       /\ card.poem = Null
       /\ LikeFind(c, p)
  \/ \E u \in DOMAIN users, p \in PoemIds : InFlight = {} /\ CardMount(u, p)
  \/ /\ Len(reqs) + card.statusSent + card.likesSent
          - Cardinality(CardRequests("status") \cup CardRequests("like"))
        < MaxCardRequests
     /\ CardHandleLike
  \/ /\ Cardinality(CardRequests("status")) < card.statusSent
     /\ LikeStatus(card.user, card.poem)
  \/ /\ Cardinality(CardRequests("like")) < card.likesSent
     /\ LikeFind(card.user, card.poem)
  \/ \E i \in 1..Len(reqs) : LikeSave(i)
  \/ \E i \in 1..Len(reqs) : CardStatusResponse(i)
  \/ \E i \in 1..Len(reqs) : CardLikeResponse(i)

CardSpec == Init /\ [][CardNext]_vars

Next == FollowNext \/ LikeNext \/ CommentNext \/ EditNext \/ AuthNext
          \/ CardNext

Spec == Init /\ [][Next]_vars

\* ------------------------------------------------------------------ follow claims
Quiet == InFlight = {}

Dual ==
  \A a \in DOMAIN users, b \in DOMAIN users :
    b \in Range(users[a].following) <=> a \in Range(users[b].followers)

\* C3: a follow request that targets the authenticated user is answered 400,
\* and no user is ever in their own followers or following.
C3_NoSelfFollow ==
  /\ \A i \in 1..Len(reqs) :
       (reqs[i].kind = "follow" /\ reqs[i].pc = "done"
          /\ reqs[i].target = reqs[i].user) => reqs[i].status = 400
  /\ \A u \in DOMAIN users :
       u \notin Range(users[u].followers) /\ u \notin Range(users[u].following)

\* C4 as stated: whenever no request is in progress, B is in
\* A.following iff A is in B.followers, overlapping requests included.
C4_DualWhenQuiet == Quiet => Dual

\* no follow request has stopped between its two saves
NoneStopped ==
  \A i \in 1..Len(reqs) : ~(reqs[i].kind = "follow" /\ reqs[i].status = 500)

\* C4 amended: whenever no request is in progress, no request has arrived
\* while another was in progress and no follow request has stopped between
\* its two saves, B is in A.following iff A is in B.followers.
C4_DualWhenSequential == (Quiet /\ ~overlap /\ NoneStopped) => Dual

C4_Witness ==
  /\ Quiet /\ ~overlap /\ NoneStopped
  /\ 2 \in Range(users[1].following) /\ 1 \in Range(users[2].followers)
  /\ \E i \in 1..Len(reqs) :
       /\ reqs[i].kind = "follow" /\ reqs[i].status = 200 /\ reqs[i].ans
       /\ reqs[i].user = 1 /\ reqs[i].target = 2

\* C5: two consecutive follow requests by A on B (A # B), the first made
\* while A does not follow B: the first answers following = true, the second
\* following = false, and A.following and B.followers end as they began.
C5_FollowTwice ==
  \A i \in 1..(Len(reqs) - 1) :
    LET r1 == reqs[i]
        r2 == reqs[i + 1]
    IN (/\ ~overlap /\ Quiet /\ i + 1 = Len(reqs)
        /\ r1.kind = "follow" /\ r2.kind = "follow"
        /\ r1.user = r2.user /\ r1.target = r2.target /\ r1.form = r2.form
        /\ r1.user # r1.target /\ r1.found
        /\ r1.target \notin Range(r1.pre[1]))
       => /\ r1.status = 200 /\ r1.ans
          /\ r2.status = 200 /\ ~r2.ans
          /\ users[r1.user].following = r1.pre[1]
          /\ users[r1.target].followers = r1.pre[2]

\* ------------------------------------------------------------------ like claims
\* request k works on poem p
Touches(k, p) ==
  reqs[k].kind \in {"like", "delete", "comment", "create"} /\ reqs[k].target = p

\* C1: when the requests ran one after another, every poem's likes_count is
\* the number of users in its likes.
C1_LikesCountIsSize ==
  ~overlap =>
    \A p \in DOMAIN poems :
      poems[p].likes_count = Cardinality(Range(poems[p].likes))

C1_Witness ==
  /\ ~overlap /\ Quiet
  /\ \E p \in DOMAIN poems : poems[p].likes_count = 1 /\ Len(poems[p].likes) = 1
  /\ \E i \in 1..Len(reqs) :
       reqs[i].kind = "like" /\ reqs[i].status = 200 /\ ~reqs[i].ans

\* requests i and j are two consecutive like requests of one user on one
\* poem: each arrived while no request on that poem was in progress, no other
\* request on the poem has arrived since i, and both are answered
ConsecutiveLikes(i, j) ==
  /\ i < j
  /\ reqs[i].kind = "like" /\ reqs[j].kind = "like"
  /\ reqs[j].user = reqs[i].user /\ reqs[j].target = reqs[i].target
  /\ reqs[i].status = 200 /\ reqs[j].pc = "done"
  /\ \A k \in reqs[i].during \cup reqs[j].during : ~Touches(k, reqs[i].target)
  /\ \A k \in (i + 1)..Len(reqs) : k # j => ~Touches(k, reqs[i].target)

\* the first request of the pair answers the flipped liked value, the second
\* the original one, and the user's membership is back where it was
MembershipRestored(i, j) ==
  LET r1 == reqs[i]
      r2 == reqs[j]
      p == r1.target
      u == r1.user
  IN /\ r2.status = 200
     /\ r1.ans = ~(u \in Range(r1.pre[1]))
     /\ r2.ans = (u \in Range(r1.pre[1]))
     /\ p \in DOMAIN poems
     /\ (u \in Range(poems[p].likes)) = (u \in Range(r1.pre[1]))

\* C2 as stated: two consecutive like requests of one user on one poem with
\* no request on that poem between them: the first answers the flipped liked
\* value, the second the original liked value and the original count, and the
\* user's membership and likes_count are back where they were.
C2_LikeTwice ==
  \A i \in 1..Len(reqs), j \in 1..Len(reqs) :
    ConsecutiveLikes(i, j)
    => /\ MembershipRestored(i, j)
       /\ reqs[j].num = reqs[i].pre[2]
       /\ poems[reqs[i].target].likes_count = reqs[i].pre[2]

\* C2 amended: the pair restores the membership and answers flipped, then
\* original; it restores likes_count and answers the original count unless
\* the user was in likes while likes_count was 0: then likes_count ends, and
\* is answered, as 1.
C2_LikeTwiceCounted ==
  \A i \in 1..Len(reqs), j \in 1..Len(reqs) :
    ConsecutiveLikes(i, j)
    => LET r1 == reqs[i]
           after == IF r1.user \in Range(r1.pre[1]) /\ r1.pre[2] = 0
                    THEN 1 ELSE r1.pre[2]
       IN /\ MembershipRestored(i, j)
          /\ reqs[j].num = after
          /\ poems[r1.target].likes_count = after

C2_Witness ==
  \E i \in 1..Len(reqs), j \in 1..Len(reqs) :
    /\ ConsecutiveLikes(i, j) /\ j = Len(reqs)
    /\ reqs[i].user \in Range(reqs[i].pre[1]) /\ reqs[i].pre[2] = 1
    /\ ~reqs[i].ans /\ reqs[j].ans /\ reqs[j].num = 1
    /\ poems[reqs[i].target].likes_count = 1

\* ------------------------------------------------------------------ comment claims
\* C6: the step that completes a DELETE with status 200 leaves no poem with
\* that id and no comment, top-level or reply, whose poem is that id.
C6_DeleteCascades ==
  [][\A i \in 1..Len(reqs) :
       (At(i, "delete", "deleteComments") /\ reqs'[i].pc = "done"
          /\ reqs'[i].status = 200)
       => /\ reqs[i].target \notin DOMAIN poems'
          /\ \A c \in DOMAIN comments' : comments'[c].poem # reqs[i].target]_vars

C6_Witness ==
  \E i \in 1..Len(reqs), j \in 1..Len(reqs), k \in 1..Len(reqs) :
    /\ j < k /\ k < i
    /\ reqs[i].kind = "delete" /\ reqs[i].status = 200
    /\ reqs[j].kind = "comment" /\ reqs[j].status = 201
    /\ reqs[k].kind = "comment" /\ reqs[k].status = 201
    /\ reqs[j].target = reqs[i].target /\ reqs[k].target = reqs[i].target
    /\ reqs[j].parent = Null /\ reqs[k].parent = reqs[j].cid
    /\ reqs[i].target \notin DOMAIN poems
    /\ \A c \in DOMAIN comments : comments[c].poem # reqs[i].target

RECURSIVE Sum(_)
Sum(s) == IF s = <<>> THEN 0 ELSE Head(s) + Sum(Tail(s))

\* how often comment id c shows in a sequence of listed entries
Shown(entries, c) == Sum([k \in 1..Len(entries) |->
                           IF entries[k].id = c THEN 1 ELSE 0])

\* C7: a reply made to a stored comment of the same, existing poem shows
\* exactly once in the poem's listing: in the replies of the entry that is
\* its parent, and not as a top-level entry.
C7_ReplyListedUnderParent ==
  \A i \in 1..Len(reqs) :
    LET r == reqs[i]
        L == GetComments(r.target)
    IN (/\ ~overlap /\ Quiet
        /\ r.kind = "comment" /\ r.status = 201 /\ r.parent # Null
        /\ r.target \in DOMAIN poems
        /\ r.cid \in DOMAIN comments
        /\ r.parent \in DOMAIN comments
        /\ comments[r.parent].poem = r.target)
       => /\ Shown(L, r.cid) = 0
          /\ Sum([k \in 1..Len(L) |->
                    IF L[k].id = r.parent THEN Shown(L[k].replies, r.cid)
                    ELSE 0]) = 1
          /\ Sum([k \in 1..Len(L) |-> Shown(L[k].replies, r.cid)]) = 1

Ascending(entries) ==
  \A a \in 1..Len(entries), b \in 1..Len(entries) :
    a < b => entries[a].createdAt <= entries[b].createdAt

\* C8: the listing of a poem is in ascending order of creation time, and so
\* are the replies inside each listed comment, also after reply requests for
\* one parent overlapped.
C8_ListingAscending ==
  Quiet =>
    \A p \in DOMAIN poems :
      LET L == GetComments(p)
      IN /\ Ascending(L)
         /\ \A k \in 1..Len(L) : Ascending(L[k].replies)

\* C9: the save of a comment request stores a comment with the request's
\* parent (null without parentId) and no replies and touches no other
\* comment; the request's update of a stored parent appends the new id, once,
\* to the parent's replies; a request without parentId changes no replies;
\* and every answered request that named a stored parent has its comment's
\* id exactly once in that parent's replies.
C9_CommentCreation ==
  /\ [](\A i \in 1..Len(reqs) :
          (/\ reqs[i].kind = "comment" /\ reqs[i].pc = "done"
           /\ reqs[i].parent \in DOMAIN comments
           /\ reqs[i].cid \in DOMAIN comments)
          => Count(comments[reqs[i].parent].replies, reqs[i].cid) = 1)
  /\ [][/\ \A i \in 1..Len(reqs) :
          (At(i, "comment", "save") /\ reqs'[i].pc # "save")
          => LET r == reqs[i]
             IN /\ r.cid \notin DOMAIN comments
                /\ r.cid \in DOMAIN comments'
                /\ comments'[r.cid].parent = r.parent
                /\ comments'[r.cid].replies = <<>>
                /\ \A c \in DOMAIN comments :
                     c \in DOMAIN comments' /\ comments'[c] = comments[c]
     /\ \A i \in 1..Len(reqs) :
          /\ (At(i, "comment", "pushParent") /\ reqs'[i].pc # "pushParent"
                /\ reqs[i].parent \in DOMAIN comments)
             => /\ comments'[reqs[i].parent].replies =
                     Append(comments[reqs[i].parent].replies, reqs[i].cid)
                /\ Count(comments'[reqs[i].parent].replies, reqs[i].cid) = 1
                /\ \A c \in DOMAIN comments \ {reqs[i].parent} :
                     comments'[c] = comments[c]
          /\ (reqs[i].kind = "comment" /\ reqs[i].parent = Null
                /\ reqs'[i] # reqs[i])
             => \A c \in DOMAIN comments :
                  c \in DOMAIN comments' /\ comments'[c].replies = comments[c].replies
    ]_vars

\* C10: after comment creations and poem deletions that ran one after
\* another, every id in a stored comment's replies names a stored comment
\* whose parent is that comment.
C10_RepliesAreChildren ==
  (~overlap /\ Quiet) =>
    \A c \in DOMAIN comments : \A r \in Range(comments[c].replies) :
      r \in DOMAIN comments /\ comments[r].parent = c

\* C11: after comment creations that ran one after another, every stored
\* comment with a parent that is stored has a top-level parent (no reply to
\* a reply is stored).
C11_OneLevelDeep ==
  (~overlap /\ Quiet) =>
    \A c \in DOMAIN comments :
      (comments[c].parent # Null /\ comments[c].parent \in DOMAIN comments)
        => comments[comments[c].parent].parent = Null

\* C17: whenever no request is in progress (and none has overlapped
\* another) every stored comment's poem is a stored poem.
C17_CommentsHavePoems ==
  (~overlap /\ Quiet) =>
    \A c \in DOMAIN comments : comments[c].poem \in DOMAIN poems

\* C14: two like requests on one poem that both read it untouched (no likes,
\* likes_count 0) and both saved, by different users and with no other
\* request on the poem, leave two users in likes and likes_count = 1.
C14_LostUpdate ==
  \A i \in 1..Len(reqs), j \in 1..Len(reqs) :
    LET p == reqs[i].target
    IN (/\ i < j /\ Quiet
        /\ reqs[i].kind = "like" /\ reqs[j].kind = "like"
        /\ reqs[j].target = p /\ reqs[i].user # reqs[j].user
        /\ reqs[i].status = 200 /\ reqs[j].status = 200
        /\ reqs[i].pre = <<<<>>, 0>> /\ reqs[j].pre = <<<<>>, 0>>
        /\ \A k \in 1..Len(reqs) :
             (k \notin {i, j} /\ Touches(k, p)) => reqs[k].kind = "create")
       => /\ p \in DOMAIN poems
          /\ Cardinality(Range(poems[p].likes)) = 2
          /\ poems[p].likes_count = 1

C14_Witness ==
  \E i \in 1..Len(reqs), j \in 1..Len(reqs) :
    /\ i < j /\ Quiet /\ overlap
    /\ reqs[i].kind = "like" /\ reqs[j].kind = "like"
    /\ reqs[j].target = reqs[i].target /\ reqs[i].user # reqs[j].user
    /\ reqs[i].status = 200 /\ reqs[j].status = 200
    /\ reqs[i].pre = <<<<>>, 0>> /\ reqs[j].pre = <<<<>>, 0>>
    /\ reqs[i].target \in DOMAIN poems
    /\ poems[reqs[i].target].likes_count
         # Cardinality(Range(poems[reqs[i].target].likes))

\* the follow request i was answered by the catch: it stopped after its first
\* save and before its second
StoppedBetweenSaves(i) ==
  reqs[i].kind = "follow" /\ reqs[i].pc = "done" /\ reqs[i].status = 500

\* B is in A.following and A is not in B.followers, or the reverse
Asymmetric(a, b) ==
  (b \in Range(users[a].following)) # (a \in Range(users[b].followers))

\* the first save writes A.following and nothing else, the second
\* B.followers and nothing else, and a handler that stops between them
\* writes nothing more
SaveOrder ==
  \A i \in 1..Len(reqs) :
    LET c == reqs[i].user
        t == reqs[i].target
    IN /\ (At(i, "follow", "saveCurrent") /\ reqs'[i].pc # "saveCurrent")
          => /\ reqs'[i].pc = "saveTarget"
             /\ users'[c].following =
                  IF reqs[i].flag THEN Without(users[c].following, t)
                                  ELSE Append(users[c].following, t)
             /\ \A u \in DOMAIN users :
                  /\ users'[u].followers = users[u].followers
                  /\ u # c => users'[u] = users[u]
       /\ (At(i, "follow", "saveTarget") /\ reqs'[i].pc = "done")
          => IF reqs'[i].status = 200
             THEN /\ users'[t].followers =
                       IF reqs[i].flag THEN Without(users[t].followers, c)
                                       ELSE Append(users[t].followers, c)
                  /\ \A u \in DOMAIN users :
                       /\ users'[u].following = users[u].following
                       /\ u # t => users'[u] = users[u]
             ELSE reqs'[i].status = 500 /\ users' = users

\* C15 as stated: the two saves come acting user first; once a follow
\* request of A on B has stopped between them, B is in A.following and A is
\* not in B.followers (the reverse for an unfollow) in every later state.
C15_AsymmetricForever ==
  /\ [](\A i \in 1..Len(reqs) :
          StoppedBetweenSaves(i)
          => /\ Asymmetric(reqs[i].user, reqs[i].target)
             /\ (reqs[i].target \in Range(users[reqs[i].user].following))
                  = ~reqs[i].flag)
  /\ [][SaveOrder]_vars

\* no request was in progress when follow request i arrived and none
\* arrived while it was
RanAlone(i) ==
  /\ reqs[i].during = {}
  /\ \A j \in (i + 1)..Len(reqs) : i \notin reqs[j].during

\* before request i, B was in A.following exactly when A was in B.followers
SymmetricBefore(i) ==
  (reqs[i].target \in Range(reqs[i].pre[1]))
    = (reqs[i].user \in Range(reqs[i].pre[2]))

\* request i's first save changed whether B is in A.following: it pulled B,
\* or pushed a B that was not there
Flipped(i) == reqs[i].flag \/ reqs[i].target \notin Range(reqs[i].pre[1])

\* the follow requests of the same A on the same B that arrived after i
LaterToggles(i) ==
  {j \in (i + 1)..Len(reqs) :
     /\ reqs[j].kind = "follow" /\ reqs[j].user = reqs[i].user
     /\ reqs[j].target = reqs[i].target /\ reqs[j].status # 400}

\* request j has made a save
Saved(j) ==
  reqs[j].pc = "saveTarget" \/ (reqs[j].pc = "done" /\ reqs[j].status \in {200, 500})

\* C15 amended: the two saves come acting user first.  A follow request of A
\* on B that ran alone from a state where B was in A.following exactly when A
\* was in B.followers, and stopped between its saves, leaves the state
\* asymmetric (B in A.following and A not in B.followers after a follow, the
\* reverse after an unfollow), unless it pushed a B that A.following already
\* held, which leaves membership as it was.  The asymmetry lasts at least
\* until a later follow request of A on B makes a save, and the next such
\* request that runs alone and completes leaves B in A.following exactly when
\* A is in B.followers.
C15_AsymmetricUntilRetoggled ==
  /\ [](\A i \in 1..Len(reqs) :
          LET c == reqs[i].user
              t == reqs[i].target
          IN (StoppedBetweenSaves(i) /\ RanAlone(i) /\ SymmetricBefore(i))
             => /\ (\A j \in LaterToggles(i) : ~Saved(j))
                   => IF Flipped(i)
                      THEN /\ Asymmetric(c, t)
                           /\ (t \in Range(users[c].following)) = ~reqs[i].flag
                           /\ (c \in Range(users[t].followers)) = reqs[i].flag
                      ELSE ~Asymmetric(c, t)
                /\ \A j \in LaterToggles(i) :
                     (/\ Flipped(i) /\ RanAlone(j)
                      /\ reqs[j].pc = "done" /\ reqs[j].status = 200
                      /\ \A k \in LaterToggles(i) : k > j => ~Saved(k)
                      /\ \A k \in LaterToggles(i) : k >= j)
                     => ~Asymmetric(c, t))
  /\ [][SaveOrder]_vars

C15_Witness ==
  \E i \in 1..Len(reqs), j \in 1..Len(reqs) :
    /\ StoppedBetweenSaves(i) /\ RanAlone(i) /\ SymmetricBefore(i)
    /\ reqs[i].flag /\ reqs[i].user # reqs[i].target
    /\ LaterToggles(i) = {j} /\ RanAlone(j)
    /\ reqs[j].pc = "done" /\ reqs[j].status = 200 /\ reqs[j].ans
    /\ reqs[i].target \in Range(users[reqs[i].user].following)
    /\ reqs[i].user \in Range(users[reqs[i].target].followers)

\* ------------------------------------------------------------------ poem claims
\* the requests that stored a comment for poem p
StoredFor(p) ==
  {i \in 1..Len(reqs) :
     reqs[i].kind = "comment" /\ reqs[i].target = p /\ reqs[i].pc # "save"}

CountStep ==
  /\ \A p \in DOMAIN poems \cap DOMAIN poems' :
       \/ poems'[p].comments_count = poems[p].comments_count
       \/ /\ poems'[p].comments_count = poems[p].comments_count + 1
          /\ \E i \in 1..Len(reqs) :
               /\ At(i, "comment", "incCount") /\ reqs[i].target = p
               /\ reqs'[i].pc = "done"
  /\ \A i \in 1..Len(reqs) :
       (/\ At(i, "comment", "incCount") /\ reqs'[i].pc = "done"
        /\ reqs[i].target \in DOMAIN poems)
       => /\ reqs'[i].status = 201
          /\ poems'[reqs[i].target].comments_count
               = poems[reqs[i].target].comments_count + 1

\* C12: a step changes a poem's comments_count only by adding 1 in a comment
\* creation, and when no request is in progress comments_count is the number
\* of comments ever stored for the poem, a comment whose request was answered
\* 500 after its save included.
C12_CommentsCount ==
  /\ [](Quiet => \A p \in DOMAIN poems :
                   poems[p].comments_count = Cardinality(StoredFor(p)))
  /\ [][CountStep]_vars

\* a request by someone else than the author of an existing poem arrives
RefusedStep ==
  LET r == reqs'[Len(reqs')]
  IN (/\ Len(reqs') = Len(reqs) + 1
      /\ r.kind \in {"edit", "delete"}
      /\ r.target \in DOMAIN poems
      /\ poems[r.target].author # r.user)
     => /\ r.pc = "done" /\ r.status = 403
        /\ poems' = poems /\ comments' = comments

\* the text of a poem changes or the poem goes only in a step of a PUT or
\* DELETE request of its author
AuthorStep ==
  \A p \in DOMAIN poems :
    (\/ p \notin DOMAIN poems'
     \/ <<poems'[p].title, poems'[p].content, poems'[p].category,
          poems'[p].tags>>
          # <<poems[p].title, poems[p].content, poems[p].category,
              poems[p].tags>>)
    => \E i \in 1..Len(reqs) :
         /\ reqs[i].kind \in {"edit", "delete"} /\ reqs[i].target = p
         /\ reqs[i].user = poems[p].author
         /\ reqs'[i].pc # reqs[i].pc

\* C16: PUT or DELETE on an existing poem by a user who is not its author is
\* answered 403 and changes no poem and no comment; a poem's title, content,
\* category or tags change, or the poem is removed, only by a request of
\* its author.
C16_OnlyAuthor == [][RefusedStep /\ AuthorStep]_vars

C16_Witness ==
  \E p \in DOMAIN poems, i \in 1..Len(reqs), j \in 1..Len(reqs) :
    /\ reqs[i].kind = "edit" /\ reqs[i].target = p /\ reqs[i].status = 403
    /\ reqs[i].user # poems[p].author /\ reqs[i].body.title = "New title"
    /\ i < j
    /\ reqs[j].kind = "edit" /\ reqs[j].target = p /\ reqs[j].status = 200
    /\ reqs[j].user = poems[p].author
    /\ poems[p].tags = <<<<"a">>, <<"b">>>>

\* ------------------------------------------------------------------ token claims
\* the header has no token: nothing but empty words after the first
NoToken(header) == \A k \in 2..Len(header) : header[k] = <<>>
\* the header's token is not one made with the server's secret
BadToken(header) ==
  /\ Len(header) >= 2 /\ header[2] # <<>>
  /\ header[2] \notin {<<u, "JWT_SECRET">> : u \in UserIds \cup {MissingUser}}

\* a request without a usable token arrives
GateStep ==
  LET r == reqs'[Len(reqs')]
  IN (Len(reqs') = Len(reqs) + 1 /\ (NoToken(r.header) \/ BadToken(r.header)))
     => /\ r.pc = "done"
        /\ r.status = IF NoToken(r.header) THEN 401 ELSE 403
        /\ <<users, poems, comments, nPoems, nComments>>'
             = <<users, poems, comments, nPoems, nComments>>

\* C13: a request to a writing route without a token is answered 401 and
\* one whose token fails verification 403; it is answered on arrival (no
\* handler step runs for it) and its arrival changes no document.
C13_TokenGate ==
  /\ [](\A i \in 1..Len(reqs) :
          /\ NoToken(reqs[i].header)
               => reqs[i].pc = "done" /\ reqs[i].status = 401
          /\ BadToken(reqs[i].header)
               => reqs[i].pc = "done" /\ reqs[i].status = 403)
  /\ [][GateStep]_vars

C13_Witness ==
  \E i \in 1..Len(reqs), j \in 1..Len(reqs) :
    /\ poems # <<>>
    /\ reqs[i].kind = "delete" /\ reqs[i].target \in DOMAIN poems
    /\ reqs[i].header = <<"Bearer", <<>>>> /\ reqs[i].status = 401
    /\ reqs[j].kind = "like" /\ reqs[j].target \in DOMAIN poems
    /\ reqs[j].header = <<"Bearer", Forged(poems[reqs[j].target].author)>>
    /\ reqs[j].status = 403

\* ------------------------------------------------------------------ card claims
\* every request the card has sent was handled and its answer delivered
AllAnswered ==
  /\ card.poem # Null
  /\ Cardinality(CardRequests("status")) = card.statusSent
  /\ Cardinality(CardRequests("like")) = card.likesSent
  /\ CardRequests("status") \cup CardRequests("like") = card.delivered

\* C18: once every request of the card has been answered, the card shows
\* the poem as liked exactly when its user is in the poem's likes.
C18_DisplayedIsStored ==
  (AllAnswered /\ card.poem \in DOMAIN poems)
    => (card.isLiked <=> card.user \in Range(poems[card.poem].likes))

====
